---- MODULE Spec2Model ----
(***************************************************************************)
(* Model of the DexScreener API client (src/src/index.ts).                 *)
(*                                                                         *)
(* One caller runs one public operation at a time.  An operation is an     *)
(* async function: it runs from its entry to the first await (the fetch),  *)
(* is resumed with the outcome of the HTTP call, suspends again at await    *)
(* response.json() when the response is ok, and runs on to the next await  *)
(* (another fetch, or a setTimeout pause) or to its return.  Each          *)
(* such run-to-next-await is one action.  The remote API is the            *)
(* environment: every fetch is answered by any response of a bounded set.  *)
(***************************************************************************)
EXTENDS Integers, Sequences, FiniteSets, TLC

(***************************************************************************)
(* Bounds of the model.                                                    *)
(***************************************************************************)
\* longest pairs array in a response to a single-request operation
MaxPairs == 3
\* longest pairs array in a response to getTokenMetrics
MaxBatchPairs == 2
\* longest pairs array in a response to one chunk of getTokensByAddresses
MaxChunkPairs == 2
\* longest pairs array in a response inside batchGetMetrics
MaxMetricsPairs == 2
\* longest address list handed to getTokensByAddresses
MaxAddrs == 65
\* longest token list handed to batchGetMetrics
MaxTokens == 2

(***************************************************************************)
(* Program constants.                                                      *)
(***************************************************************************)
BATCH_SIZE == 30
BATCH_DELAY_MS == 100
METRICS_DELAY_MS == 250
DEFAULT_MIN_VOLUME == 30000

(***************************************************************************)
(* JavaScript values.  A missing (undefined) string field is Undef, a      *)
(* missing number is Missing; both are falsy, as are "" and 0.             *)
(***************************************************************************)
Undef == "<undefined>"
Missing == -1

\* x || 0 on an optional number
OrZero(x) == IF x = Missing THEN 0 ELSE x

\* truthiness of an optional string
Truthy(s) == s # Undef /\ s # ""

\* String.prototype.toUpperCase on the strings of the model
ToUpperCase(s) ==
  CASE s = "sol" -> "SOL"
    [] s = "solana" -> "SOLANA"
    [] s = "Eth" -> "ETH"
    [] s = "ethereum" -> "ETHEREUM"
    [] s = "Tron" -> "TRON"
    [] s = "tron" -> "TRON"
    [] s = "bonk" -> "BONK"
    [] s = "Bonk" -> "BONK"
    [] OTHER -> s

\* String.prototype.toLowerCase on the strings of the model
ToLowerCase(s) ==
  CASE s = "SOL" -> "sol"
    [] s = "SOLANA" -> "solana"
    [] s = "Eth" -> "eth"
    [] s = "ETH" -> "eth"
    [] s = "Tron" -> "tron"
    [] s = "TRON" -> "tron"
    [] s = "BONK" -> "bonk"
    [] s = "Bonk" -> "bonk"
    [] s = "PEPE" -> "pepe"
    [] OTHER -> s

CHAIN_MAP ==
  [k \in {"SOL", "ETH", "BASE", "ARB", "BSC", "AVAX", "MATIC", "FTM", "OP"} |->
     CASE k = "SOL" -> "solana"
       [] k = "ETH" -> "ethereum"
       [] k = "BASE" -> "base"
       [] k = "ARB" -> "arbitrum"
       [] k = "BSC" -> "bsc"
       [] k = "AVAX" -> "avalanche"
       [] k = "MATIC" -> "polygon"
       [] k = "FTM" -> "fantom"
       [] k = "OP" -> "optimism"]

\* CHAIN_MAP[chain.toUpperCase()] || chain.toLowerCase()
normalizeChain(chain) ==
  IF ToUpperCase(chain) \in DOMAIN CHAIN_MAP
    THEN CHAIN_MAP[ToUpperCase(chain)]
    ELSE ToLowerCase(chain)

(***************************************************************************)
(* Pair records as they arrive in a response body.  hasBase = FALSE is a   *)
(* record without baseToken; chainId = Undef, liq = Missing (liquidity or  *)
(* liquidity.usd absent) and vol = Missing (volume or volume.h24 absent)   *)
(* are records lacking those fields.                                       *)
(***************************************************************************)
BasePair ==
  [chainId |-> "solana", hasBase |-> TRUE, symbol |-> "Bonk", address |-> "A1",
   liq |-> 1, vol |-> 0, pairAddress |-> "P1", pairCreatedAt |-> 1]

\* the value of the local `pair` / of a result before any pair is known
NoPair ==
  [chainId |-> Undef, hasBase |-> FALSE, symbol |-> Undef, address |-> Undef,
   liq |-> Missing, vol |-> Missing, pairAddress |-> Undef, pairCreatedAt |-> 0]

\* all sequences over S of length 0..n
SeqsUpTo(S, n) == UNION {[1..k -> S] : k \in 0..n}

(***************************************************************************)
(* Outcomes of one HTTP call: fetch rejects ("neterr"), response.ok is     *)
(* false ("status"), response.json() rejects ("badjson"), or a parsed body *)
(* ("ok") whose pairs member is an array (hasPairs) or is missing/null.    *)
(***************************************************************************)
Failure(kind) == [kind |-> kind, hasPairs |-> FALSE, pairs |-> <<>>]
Body(pairs) == [kind |-> "ok", hasPairs |-> TRUE, pairs |-> pairs]
BodyNoPairs == [kind |-> "ok", hasPairs |-> FALSE, pairs |-> <<>>]
NoResp == Failure("none")

Failures == {Failure("neterr"), Failure("status"), Failure("badjson")}

\* what the await of fetch can deliver short of a usable response: a
\* rejection, or a response whose ok is false
HeadFailures == {Failure("neterr"), Failure("status")}

\* what the await of response.json() can deliver: a rejection or a body whose
\* pairs are drawn from the universe U, at most n of them
BodyOutcomes(U, n) ==
  {Failure("badjson"), BodyNoPairs} \cup {Body(ps) : ps \in SeqsUpTo(U, n)}

\* the responses whose pairs are drawn from the universe U, at most n of them
Responses(U, n) == Failures \cup {BodyNoPairs} \cup {Body(ps) : ps \in SeqsUpTo(U, n)}

\* data.pairs || []
PairsOf(r) == IF r.hasPairs THEN r.pairs ELSE <<>>

(***************************************************************************)
(* Values an operation hands back to its caller.                           *)
(***************************************************************************)
Pending == [kind |-> "pending"]
Null == [kind |-> "null"]
Threw == [kind |-> "threw"]
PairVal(p) == [kind |-> "pair", pair |-> p]
ListVal(l) == [kind |-> "list", list |-> l]
MapVal(m) == [kind |-> "map", map |-> m]
StrVal(s) == [kind |-> "string", str |-> s]
MetricsVal(m) == [kind |-> "metrics", metrics |-> m]

EmptyMap == [k \in {} |-> NoPair]

(***************************************************************************)
(* The liquidity reduce shared by searchToken, getTokenByAddress and       *)
(* getTokensByAddresses:                                                   *)
(*   pairs.reduce((best, pair) => pairLiq > bestLiq ? pair : best, pairs[0])*)
(***************************************************************************)
RECURSIVE reduceFrom(_, _, _)
reduceFrom(pairs, k, best) ==
  IF k > Len(pairs) THEN best
  ELSE reduceFrom(pairs, k + 1,
         IF OrZero(pairs[k].liq) > OrZero(best.liq) THEN pairs[k] ELSE best)

\* the variant that lets a later pair of equal liquidity replace the best
RECURSIVE reduceFromLastWins(_, _, _)
reduceFromLastWins(pairs, k, best) ==
  IF k > Len(pairs) THEN best
  ELSE reduceFromLastWins(pairs, k + 1,
         IF OrZero(pairs[k].liq) >= OrZero(best.liq) THEN pairs[k] ELSE best)

reduceBestLastWins(pairs) == reduceFromLastWins(pairs, 1, pairs[1])

reduceBest(pairs) == reduceFrom(pairs, 1, pairs[1])

(***************************************************************************)
(* searchToken: the value returned once the fetch has settled.             *)
(***************************************************************************)
searchTokenValue(r) ==
  IF r.kind # "ok" THEN Null
  ELSE IF Len(PairsOf(r)) = 0 THEN Null
  ELSE PairVal(reduceBest(PairsOf(r)))

(***************************************************************************)
(* getTokenByAddress: the value returned once the fetch has settled.       *)
(***************************************************************************)
\* the variant whose fallback takes the best pair of all chains
getTokenByAddressBestFallback(chain, r) ==
  IF r.kind # "ok" THEN Null
  ELSE IF Len(PairsOf(r)) = 0 THEN Null
  ELSE LET chainId == normalizeChain(chain)
           pairs == PairsOf(r)
           Match(p) == p.chainId = chainId
           filteredPairs == IF Truthy(chainId) THEN SelectSeq(pairs, Match) ELSE pairs
       IN IF Len(filteredPairs) = 0 THEN PairVal(reduceBest(pairs))
          ELSE PairVal(reduceBest(filteredPairs))

getTokenByAddressValue(chain, r) ==
  IF r.kind # "ok" THEN Null
  ELSE IF Len(PairsOf(r)) = 0 THEN Null
  ELSE LET chainId == normalizeChain(chain)
           pairs == PairsOf(r)
           Match(p) == p.chainId = chainId
           filteredPairs == IF Truthy(chainId) THEN SelectSeq(pairs, Match) ELSE pairs
       IN IF Len(filteredPairs) = 0 THEN PairVal(pairs[1])
          ELSE PairVal(reduceBest(filteredPairs))

(***************************************************************************)
(* pairToMetrics.  Reading pair.baseToken.symbol of a record without       *)
(* baseToken, or calling toUpperCase on a missing chainId, raises a        *)
(* TypeError.                                                              *)
(***************************************************************************)
pairToMetricsThrows(p) == ~p.hasBase \/ p.chainId = Undef

pairToMetrics(p) ==
  [ticker |-> p.symbol, chain |-> ToUpperCase(p.chainId), contract |-> p.address,
   volume24h |-> OrZero(p.vol), liquidity |-> OrZero(p.liq)]

\* what `return pairToMetrics(pair)` hands to the caller
metricsValue(p) ==
  IF pairToMetricsThrows(p) THEN Threw ELSE MetricsVal(pairToMetrics(p))

(***************************************************************************)
(* getTokenMetrics: the symbol check of line 240 and of line 242.          *)
(***************************************************************************)
symbolMismatch(p, ticker) == ToUpperCase(p.symbol) # ToUpperCase(ticker)

\* the outcome of lines 235-248 once the first search has returned: the
\* value handed back, or Retry when line 241 issues the second search
Retry == [kind |-> "retry"]

metricsAfterSearch(ticker, r) ==
  IF searchTokenValue(r) = Null THEN Null
  ELSE IF ~searchTokenValue(r).pair.hasBase THEN Threw
  ELSE IF symbolMismatch(searchTokenValue(r).pair, ticker) THEN Retry
  ELSE metricsValue(searchTokenValue(r).pair)

\* the outcome of lines 242-245 once the retry search has returned
metricsAfterRetry(ticker, r) ==
  IF searchTokenValue(r) = Null THEN Null
  ELSE IF ~searchTokenValue(r).pair.hasBase THEN Threw
  ELSE IF symbolMismatch(searchTokenValue(r).pair, ticker) THEN Null
  ELSE metricsValue(searchTokenValue(r).pair)

\* const query = chain ? `${ticker} ${chain}` : ticker, as the list of its words
metricsQuery(ticker, chain) == IF Truthy(chain) THEN <<ticker, chain>> ELSE <<ticker>>

(***************************************************************************)
(* Array.prototype.sort with the comparator key(b) - key(a): a stable sort *)
(* into non-increasing key order.                                          *)
(***************************************************************************)
SortKey(p, field) == IF field = "vol" THEN OrZero(p.vol) ELSE p.pairCreatedAt

RECURSIVE insertDesc(_, _, _)
insertDesc(sorted, x, field) ==
  IF sorted = <<>> THEN <<x>>
  ELSE IF SortKey(Head(sorted), field) >= SortKey(x, field)
         THEN <<Head(sorted)>> \o insertDesc(Tail(sorted), x, field)
         ELSE <<x>> \o sorted

RECURSIVE sortDesc(_, _)
sortDesc(s, field) ==
  IF s = <<>> THEN <<>>
  ELSE insertDesc(sortDesc(SubSeq(s, 1, Len(s) - 1), field), s[Len(s)], field)

(***************************************************************************)
(* searchByVolume: the value returned once the fetch has settled.          *)
(***************************************************************************)
\* minVolume24h: number = 30000
minVolumeOrDefault(minVolume24h) ==
  IF minVolume24h = Missing THEN DEFAULT_MIN_VOLUME ELSE minVolume24h

\* the variant whose threshold is exclusive
searchByVolumeStrict(minVolume24h, r) ==
  IF r.kind # "ok" THEN ListVal(<<>>)
  ELSE LET Enough(p) == OrZero(p.vol) > minVolumeOrDefault(minVolume24h)
       IN ListVal(sortDesc(SelectSeq(PairsOf(r), Enough), "vol"))

searchByVolumeValue(minVolume24h, r) ==
  IF r.kind # "ok" THEN ListVal(<<>>)
  ELSE LET Enough(p) == OrZero(p.vol) >= minVolumeOrDefault(minVolume24h)
       IN ListVal(sortDesc(SelectSeq(PairsOf(r), Enough), "vol"))

(***************************************************************************)
(* getNewPairs and getBoostedTokens: the value returned.                   *)
(***************************************************************************)
getNewPairsValue(r) ==
  IF r.kind # "ok" THEN ListVal(<<>>)
  ELSE ListVal(sortDesc(PairsOf(r), "pairCreatedAt"))

\* await response.json() || []
getBoostedTokensValue(r) ==
  IF r.kind # "ok" THEN ListVal(<<>>) ELSE ListVal(PairsOf(r))

(***************************************************************************)
(* getLiquidityPoolAddress: pair?.pairAddress || null                      *)
(***************************************************************************)
getLiquidityPoolAddressValue(chain, r) ==
  LET v == getTokenByAddressValue(chain, r)
  IN IF v.kind = "pair" /\ Truthy(v.pair.pairAddress)
       THEN StrVal(v.pair.pairAddress) ELSE Null

(***************************************************************************)
(* getAllLiquidityPoolAddresses: filter by chain, map to pairAddress, and  *)
(* keep the elements that are their own first occurrence.                  *)
(***************************************************************************)
\* Array.prototype.indexOf, 1-based
indexOf(arr, x) == CHOOSE i \in 1..Len(arr) : arr[i] = x /\ \A j \in 1..(i - 1) : arr[j] # x

\* the last position of x in arr
lastIndexOf(arr, x) == CHOOSE i \in 1..Len(arr) : arr[i] = x /\ \A j \in (i + 1)..Len(arr) : arr[j] # x

RECURSIVE keepWhereIndex(_, _, _)
keepWhereIndex(arr, k, useLast) ==
  IF k > Len(arr) THEN <<>>
  ELSE (IF (IF useLast THEN lastIndexOf(arr, arr[k]) ELSE indexOf(arr, arr[k])) = k
          THEN <<arr[k]>> ELSE <<>>) \o keepWhereIndex(arr, k + 1, useLast)

\* the variant that keeps the last occurrence of every address
dedupeKeepLast(arr) == keepWhereIndex(arr, 1, TRUE)

\* arr.filter((addr, idx, arr) => arr.indexOf(addr) === idx)
dedupe(arr) == keepWhereIndex(arr, 1, FALSE)

getAllLiquidityPoolAddressesValue(chain, r) ==
  IF r.kind # "ok" THEN ListVal(<<>>)
  ELSE LET chainId == normalizeChain(chain)
           Match(p) == p.chainId = chainId
           matching == SelectSeq(PairsOf(r), Match)
       IN ListVal(dedupe([i \in 1..Len(matching) |-> matching[i].pairAddress]))

(***************************************************************************)
(* getTokensByAddresses: the batches and the processing of one response.   *)
(***************************************************************************)
Min(a, b) == IF a < b THEN a ELSE b

\* the number of iterations of the loop of line 301
NumBatches(n) == (n + BATCH_SIZE - 1) \div BATCH_SIZE

\* the variant whose batches overlap by one address
BatchesOverlapping(addresses) ==
  [k \in 1..NumBatches(Len(addresses)) |->
     SubSeq(addresses, Min((k - 1) * BATCH_SIZE, Len(addresses)) + (IF k = 1 THEN 1 ELSE 0),
            Min(k * BATCH_SIZE, Len(addresses)))]

\* batches[k-1] = addresses.slice(i, i + BATCH_SIZE) with i = (k-1) * BATCH_SIZE
Batches(addresses) ==
  [k \in 1..NumBatches(Len(addresses)) |->
     SubSeq(addresses, (k - 1) * BATCH_SIZE + 1, Min(k * BATCH_SIZE, Len(addresses)))]

\* const normalizedChain = chainFilter ? normalizeChain(chainFilter) : null
normalizedChainOf(chainFilter) ==
  IF Truthy(chainFilter) THEN normalizeChain(chainFilter) ELSE Undef

\* the pairs that get past line 323
passingPairs(chainFilter, r) ==
  LET Pass(p) == ~Truthy(normalizedChainOf(chainFilter))
                   \/ p.chainId = normalizedChainOf(chainFilter)
  IN SelectSeq(PairsOf(r), Pass)

\* how the try block of lines 306-349 ends: "status" is the continue of line
\* 314, "neterr" / "badjson" / "shape" reach the catch (a record without
\* baseToken raises at line 325, before anything is stored), "ok" reaches
\* the end of the block
chunkOutcome(chainFilter, r) ==
  IF r.kind # "ok" THEN r.kind
  ELSE IF \E i \in 1..Len(passingPairs(chainFilter, r)) :
            ~passingPairs(chainFilter, r)[i].hasBase THEN "shape"
  ELSE "ok"

\* lines 320-340: the best pair of every base-token address of the response
chunkBest(chainFilter, r) ==
  LET passing == passingPairs(chainFilter, r)
  IN [a \in {passing[i].address : i \in 1..Len(passing)} |->
        LET Same(p) == p.address = a
        IN reduceBest(SelectSeq(passing, Same))]

\* results.set(addr, bestPair) for every entry of m
MapSetAll(results, m) ==
  [a \in DOMAIN results \cup DOMAIN m |-> IF a \in DOMAIN m THEN m[a] ELSE results[a]]

\* the variant in which a failed chunk empties the map
resultsAfterChunkDropping(results, chainFilter, r) ==
  IF chunkOutcome(chainFilter, r) = "ok"
    THEN MapSetAll(results, chunkBest(chainFilter, r))
    ELSE EmptyMap

\* the result map once the response of one chunk has been handled
resultsAfterChunk(results, chainFilter, r) ==
  IF chunkOutcome(chainFilter, r) = "ok"
    THEN MapSetAll(results, chunkBest(chainFilter, r))
    ELSE results

\* lines 343-345: the pause is reached only at the end of the try block
pauseAfterChunk(numBatches, outcome) == outcome = "ok" /\ numBatches > 1

(***************************************************************************)
(* Inputs.                                                                 *)
(***************************************************************************)
ChainInputs == {"SOL", "solana", "Eth", "Tron", ""}
Queries == {"bonk", "PEPE"}
Addresses == {"A1", "A2"}

\* pairs of search responses: liquidity and identity vary
SearchPairs ==
  {[BasePair EXCEPT !.liq = l, !.pairAddress = a] :
     l \in {Missing, 0, 1, 2}, a \in {"P1", "P2"}}

\* pairs of tokens-by-address responses: chain and liquidity vary
TokenPairs ==
  {[BasePair EXCEPT !.chainId = c, !.liq = l] :
     c \in {"solana", "ethereum", Undef}, l \in {Missing, 1, 2}}

Tickers == {"bonk", "PEPE"}
OptChains == {Undef, "", "SOL"}
MinVolumes == {Missing, 0, 50000, 60000}

\* pairs of search responses to getTokenMetrics: symbol, presence of
\* baseToken and of chainId, and liquidity vary
MetricsPairs ==
  {[BasePair EXCEPT !.hasBase = b, !.symbol = IF b THEN y ELSE Undef,
                    !.address = IF b THEN "A1" ELSE Undef, !.chainId = c, !.liq = l] :
     b \in BOOLEAN, y \in {"Bonk", "PEPE"}, c \in {"solana", Undef}, l \in {1, 2}}

\* pairs of search responses to searchByVolume: volume and identity vary
VolumePairs ==
  {[BasePair EXCEPT !.vol = v, !.pairAddress = a] :
     v \in {Missing, 0, 10000, 60000, 90000}, a \in {"P1", "P2"}}

\* pairs of responses to getAllLiquidityPoolAddresses: chain and address vary
PoolPairs ==
  {[BasePair EXCEPT !.chainId = c, !.pairAddress = a] :
     c \in {"solana", "ethereum", Undef}, a \in {"P1", "P2", Undef}}

\* pairs of responses to getNewPairs: creation time and identity vary
NewPairs ==
  {[BasePair EXCEPT !.pairCreatedAt = t, !.pairAddress = a] :
     t \in {1, 2, 3}, a \in {"P1", "P2"}}

\* records of the boosted-tokens endpoint
BoostedTokens == {[tokenAddress |-> a, amount |-> 1] : a \in Addresses}

\* the input of getTokensByAddresses: addresses 1..n, for the sizes around
\* the batch boundaries
AddressCounts == {0, 1, BATCH_SIZE, BATCH_SIZE + 1, MaxAddrs}
AddressList(n) == [k \in 1..n |-> k]
ChainFilters == {Undef, "SOL"}

\* pairs of a chunk response: base-token address, chain, liquidity and the
\* presence of baseToken vary
ChunkPairs ==
  {[BasePair EXCEPT !.address = "A1", !.liq = 1],
   [BasePair EXCEPT !.address = "A1", !.liq = 2, !.pairAddress = "P2"],
   [BasePair EXCEPT !.address = "A1", !.liq = 3, !.chainId = "ethereum", !.pairAddress = "P3"],
   [BasePair EXCEPT !.address = "A2", !.liq = 1, !.pairAddress = "P4"],
   [BasePair EXCEPT !.hasBase = FALSE, !.symbol = Undef, !.address = Undef, !.pairAddress = "P5"],
   [BasePair EXCEPT !.hasBase = FALSE, !.symbol = Undef, !.address = Undef,
                    !.chainId = "ethereum", !.pairAddress = "P6"]}

\* the requests of batchGetMetrics: by search, with and without chain, and
\* by contract address
TokenRequests ==
  {[ticker |-> t, chain |-> c[1], contract |-> c[2]] :
     t \in Tickers, c \in {<<Undef, Undef>>, <<"SOL", Undef>>, <<"SOL", "A1">>}}

\* pairs of the responses inside batchGetMetrics
BatchMetricsPairs ==
  {[BasePair EXCEPT !.symbol = "Bonk", !.liq = 1],
   [BasePair EXCEPT !.symbol = "PEPE", !.liq = 2, !.address = "A2"],
   [BasePair EXCEPT !.symbol = "PEPE", !.liq = 1, !.address = "A2", !.chainId = "ethereum"],
   [BasePair EXCEPT !.symbol = "Bonk", !.liq = 2, !.chainId = Undef],
   [BasePair EXCEPT !.hasBase = FALSE, !.symbol = Undef, !.address = Undef, !.liq = 2]}

(***************************************************************************)
(* State.                                                                  *)
(***************************************************************************)
VARIABLES
  op,       \* the public operation in progress, "idle" before any call
  args,     \* its arguments
  pc,       \* "idle", "fetch" (awaiting fetch), "json" (awaiting the body),
            \* "sleep", "done"; the operations with several calls name theirs
  log,      \* the HTTP requests issued and pauses started, in order
  resp,     \* the outcome of the last HTTP call
  result,   \* what the operation handed back to its caller
  pair,     \* getTokenMetrics: its local `pair`, the first search's result
  results,  \* the batch operations: their local map `results`
  idx,      \* the batch operations: the batch / token being processed, from 1
  hist      \* getTokensByAddresses: per batch handled so far, how its try
            \* block ended and the best pairs it stored

vars == <<op, args, pc, log, resp, result, pair, results, idx, hist>>
batchVars == <<results, idx, hist>>

Req(endpoint, q) == [kind |-> "req", endpoint |-> endpoint, q |-> q]
Sleep(ms) == [kind |-> "sleep", endpoint |-> "timer", q |-> <<ms>>]

Init ==
  /\ op = "idle"
  /\ args = [none |-> TRUE]
  /\ pc = "idle"
  /\ log = <<>>
  /\ resp = NoResp
  /\ result = Pending
  /\ pair = Pending
  /\ results = EmptyMap
  /\ idx = 0
  /\ hist = <<>>

(***************************************************************************)
(* searchToken(query)                                                      *)
(***************************************************************************)
searchToken ==
  /\ pc = "idle"
  /\ \E query \in Queries :
       /\ op' = "searchToken"
       /\ args' = [query |-> query]
       /\ log' = <<Req("search", <<query>>)>>
  /\ pc' = "fetch"
  /\ UNCHANGED <<resp, result, pair, batchVars>>

\* the code that runs once an await of this HTTP call has delivered one of rs
searchTokenSettled(rs) ==
  /\ op = "searchToken"
  /\ \E r \in rs :
       /\ resp' = r
       /\ result' = searchTokenValue(r)
  /\ pc' = "done"
  /\ UNCHANGED <<op, args, log, pair, batchVars>>

\* the await of fetch settles: a rejection or a non-ok status is handled at
\* once, an ok response suspends again at await response.json()
searchTokenFetched ==
  /\ pc = "fetch"
  /\ \/ searchTokenSettled(HeadFailures)
     \/ /\ op = "searchToken"
        /\ pc' = "json"
        /\ UNCHANGED <<op, args, log, resp, result, pair, batchVars>>

\* the await of response.json() settles
searchTokenParsed ==
  /\ pc = "json"
  /\ searchTokenSettled(BodyOutcomes(SearchPairs, MaxPairs))

(***************************************************************************)
(* getTokenByAddress(chain, address)                                       *)
(***************************************************************************)
getTokenByAddress ==
  /\ pc = "idle"
  /\ \E chain \in ChainInputs, address \in Addresses :
       /\ op' = "getTokenByAddress"
       /\ args' = [chain |-> chain, address |-> address]
       /\ log' = <<Req("tokens", <<address>>)>>
  /\ pc' = "fetch"
  /\ UNCHANGED <<resp, result, pair, batchVars>>

\* the code that runs once an await of this HTTP call has delivered one of rs
getTokenByAddressSettled(rs) ==
  /\ op = "getTokenByAddress"
  /\ \E r \in rs :
       /\ resp' = r
       /\ result' = getTokenByAddressValue(args.chain, r)
  /\ pc' = "done"
  /\ UNCHANGED <<op, args, log, pair, batchVars>>

\* the await of fetch settles: a rejection or a non-ok status is handled at
\* once, an ok response suspends again at await response.json()
getTokenByAddressFetched ==
  /\ pc = "fetch"
  /\ \/ getTokenByAddressSettled(HeadFailures)
     \/ /\ op = "getTokenByAddress"
        /\ pc' = "json"
        /\ UNCHANGED <<op, args, log, resp, result, pair, batchVars>>

\* the await of response.json() settles
getTokenByAddressParsed ==
  /\ pc = "json"
  /\ getTokenByAddressSettled(BodyOutcomes(TokenPairs, MaxPairs))

(***************************************************************************)
(* getTokenMetrics(ticker, chain?)                                         *)
(***************************************************************************)
getTokenMetrics ==
  /\ pc = "idle"
  /\ \E ticker \in Tickers, chain \in OptChains :
       /\ op' = "getTokenMetrics"
       /\ args' = [ticker |-> ticker, chain |-> chain]
       /\ log' = <<Req("search", metricsQuery(ticker, chain))>>
  /\ pc' = "fetch"
  /\ UNCHANGED <<resp, result, pair, batchVars>>

\* resumed with the first search's result: lines 237-248
\* the code that runs once an await of this HTTP call has delivered one of rs
getTokenMetricsSettled(rs) ==
  /\ op = "getTokenMetrics"
  /\ \E r \in rs :
       /\ resp' = r
       /\ pair' = searchTokenValue(r)
       /\ IF metricsAfterSearch(args.ticker, r) = Retry
            THEN /\ log' = Append(log, Req("search", <<args.ticker>>))
                 /\ pc' = "retry"
                 /\ result' = result
            ELSE /\ result' = metricsAfterSearch(args.ticker, r)
                 /\ pc' = "done"
                 /\ log' = log
  /\ UNCHANGED <<op, args, batchVars>>

\* the await of fetch settles: a rejection or a non-ok status is handled at
\* once, an ok response suspends again at await response.json()
getTokenMetricsFetched ==
  /\ pc = "fetch"
  /\ \/ getTokenMetricsSettled(HeadFailures)
     \/ /\ op = "getTokenMetrics"
        /\ pc' = "json"
        /\ UNCHANGED <<op, args, log, resp, result, pair, batchVars>>

\* the await of response.json() settles
getTokenMetricsParsed ==
  /\ pc = "json"
  /\ getTokenMetricsSettled(BodyOutcomes(MetricsPairs, MaxBatchPairs))

\* resumed with the retry search's result: lines 242-245
\* the code that runs once an await of this HTTP call has delivered one of rs
getTokenMetricsRetrySettled(rs) ==
  /\ op = "getTokenMetrics"
  /\ \E r \in rs :
       /\ resp' = r
       /\ result' = metricsAfterRetry(args.ticker, r)
  /\ pc' = "done"
  /\ UNCHANGED <<op, args, log, pair, batchVars>>

\* the await of fetch settles: a rejection or a non-ok status is handled at
\* once, an ok response suspends again at await response.json()
getTokenMetricsRetried ==
  /\ pc = "retry"
  /\ \/ getTokenMetricsRetrySettled(HeadFailures)
     \/ /\ op = "getTokenMetrics"
        /\ pc' = "retryJson"
        /\ UNCHANGED <<op, args, log, resp, result, pair, batchVars>>

\* the await of response.json() settles
getTokenMetricsRetryParsed ==
  /\ pc = "retryJson"
  /\ getTokenMetricsRetrySettled(BodyOutcomes(MetricsPairs, MaxBatchPairs))

(***************************************************************************)
(* getBoostedTokens()                                                      *)
(***************************************************************************)
getBoostedTokens ==
  /\ pc = "idle"
  /\ op' = "getBoostedTokens"
  /\ args' = [none |-> TRUE]
  /\ log' = <<Req("token-boosts", <<>>)>>
  /\ pc' = "fetch"
  /\ UNCHANGED <<resp, result, pair, batchVars>>

\* the code that runs once an await of this HTTP call has delivered one of rs
getBoostedTokensSettled(rs) ==
  /\ op = "getBoostedTokens"
  /\ \E r \in rs :
       /\ resp' = r
       /\ result' = getBoostedTokensValue(r)
  /\ pc' = "done"
  /\ UNCHANGED <<op, args, log, pair, batchVars>>

\* the await of fetch settles: a rejection or a non-ok status is handled at
\* once, an ok response suspends again at await response.json()
getBoostedTokensFetched ==
  /\ pc = "fetch"
  /\ \/ getBoostedTokensSettled(HeadFailures)
     \/ /\ op = "getBoostedTokens"
        /\ pc' = "json"
        /\ UNCHANGED <<op, args, log, resp, result, pair, batchVars>>

\* the await of response.json() settles
getBoostedTokensParsed ==
  /\ pc = "json"
  /\ getBoostedTokensSettled(BodyOutcomes(BoostedTokens, MaxPairs))

(***************************************************************************)
(* getNewPairs(chainId)                                                    *)
(***************************************************************************)
getNewPairs ==
  /\ pc = "idle"
  /\ \E chainId \in ChainInputs :
       /\ op' = "getNewPairs"
       /\ args' = [chainId |-> chainId]
       /\ log' = <<Req("pairs", <<normalizeChain(chainId)>>)>>
  /\ pc' = "fetch"
  /\ UNCHANGED <<resp, result, pair, batchVars>>

\* the code that runs once an await of this HTTP call has delivered one of rs
getNewPairsSettled(rs) ==
  /\ op = "getNewPairs"
  /\ \E r \in rs :
       /\ resp' = r
       /\ result' = getNewPairsValue(r)
  /\ pc' = "done"
  /\ UNCHANGED <<op, args, log, pair, batchVars>>

\* the await of fetch settles: a rejection or a non-ok status is handled at
\* once, an ok response suspends again at await response.json()
getNewPairsFetched ==
  /\ pc = "fetch"
  /\ \/ getNewPairsSettled(HeadFailures)
     \/ /\ op = "getNewPairs"
        /\ pc' = "json"
        /\ UNCHANGED <<op, args, log, resp, result, pair, batchVars>>

\* the await of response.json() settles
getNewPairsParsed ==
  /\ pc = "json"
  /\ getNewPairsSettled(BodyOutcomes(NewPairs, MaxPairs))

(***************************************************************************)
(* searchByVolume(query, minVolume24h = 30000)                             *)
(***************************************************************************)
searchByVolume ==
  /\ pc = "idle"
  /\ \E query \in Queries, minVolume24h \in MinVolumes :
       /\ op' = "searchByVolume"
       /\ args' = [query |-> query, minVolume24h |-> minVolume24h]
       /\ log' = <<Req("search", <<query>>)>>
  /\ pc' = "fetch"
  /\ UNCHANGED <<resp, result, pair, batchVars>>

\* the code that runs once an await of this HTTP call has delivered one of rs
searchByVolumeSettled(rs) ==
  /\ op = "searchByVolume"
  /\ \E r \in rs :
       /\ resp' = r
       /\ result' = searchByVolumeValue(args.minVolume24h, r)
  /\ pc' = "done"
  /\ UNCHANGED <<op, args, log, pair, batchVars>>

\* the await of fetch settles: a rejection or a non-ok status is handled at
\* once, an ok response suspends again at await response.json()
searchByVolumeFetched ==
  /\ pc = "fetch"
  /\ \/ searchByVolumeSettled(HeadFailures)
     \/ /\ op = "searchByVolume"
        /\ pc' = "json"
        /\ UNCHANGED <<op, args, log, resp, result, pair, batchVars>>

\* the await of response.json() settles
searchByVolumeParsed ==
  /\ pc = "json"
  /\ searchByVolumeSettled(BodyOutcomes(VolumePairs, MaxPairs))

(***************************************************************************)
(* getLiquidityPoolAddress(chain, tokenAddress)                            *)
(***************************************************************************)
getLiquidityPoolAddress ==
  /\ pc = "idle"
  /\ \E chain \in ChainInputs, tokenAddress \in Addresses :
       /\ op' = "getLiquidityPoolAddress"
       /\ args' = [chain |-> chain, tokenAddress |-> tokenAddress]
       /\ log' = <<Req("tokens", <<tokenAddress>>)>>
  /\ pc' = "fetch"
  /\ UNCHANGED <<resp, result, pair, batchVars>>

\* the code that runs once an await of this HTTP call has delivered one of rs
getLiquidityPoolAddressSettled(rs) ==
  /\ op = "getLiquidityPoolAddress"
  /\ \E r \in rs :
       /\ resp' = r
       /\ result' = getLiquidityPoolAddressValue(args.chain, r)
  /\ pc' = "done"
  /\ UNCHANGED <<op, args, log, pair, batchVars>>

\* the await of fetch settles: a rejection or a non-ok status is handled at
\* once, an ok response suspends again at await response.json()
getLiquidityPoolAddressFetched ==
  /\ pc = "fetch"
  /\ \/ getLiquidityPoolAddressSettled(HeadFailures)
     \/ /\ op = "getLiquidityPoolAddress"
        /\ pc' = "json"
        /\ UNCHANGED <<op, args, log, resp, result, pair, batchVars>>

\* the await of response.json() settles
getLiquidityPoolAddressParsed ==
  /\ pc = "json"
  /\ getLiquidityPoolAddressSettled(BodyOutcomes(PoolPairs, MaxPairs))

(***************************************************************************)
(* getAllLiquidityPoolAddresses(chain, tokenAddress)                       *)
(***************************************************************************)
getAllLiquidityPoolAddresses ==
  /\ pc = "idle"
  /\ \E chain \in ChainInputs, tokenAddress \in Addresses :
       /\ op' = "getAllLiquidityPoolAddresses"
       /\ args' = [chain |-> chain, tokenAddress |-> tokenAddress]
       /\ log' = <<Req("tokens", <<tokenAddress>>)>>
  /\ pc' = "fetch"
  /\ UNCHANGED <<resp, result, pair, batchVars>>

\* the code that runs once an await of this HTTP call has delivered one of rs
getAllLiquidityPoolAddressesSettled(rs) ==
  /\ op = "getAllLiquidityPoolAddresses"
  /\ \E r \in rs :
       /\ resp' = r
       /\ result' = getAllLiquidityPoolAddressesValue(args.chain, r)
  /\ pc' = "done"
  /\ UNCHANGED <<op, args, log, pair, batchVars>>

\* the await of fetch settles: a rejection or a non-ok status is handled at
\* once, an ok response suspends again at await response.json()
getAllLiquidityPoolAddressesFetched ==
  /\ pc = "fetch"
  /\ \/ getAllLiquidityPoolAddressesSettled(HeadFailures)
     \/ /\ op = "getAllLiquidityPoolAddresses"
        /\ pc' = "json"
        /\ UNCHANGED <<op, args, log, resp, result, pair, batchVars>>

\* the await of response.json() settles
getAllLiquidityPoolAddressesParsed ==
  /\ pc = "json"
  /\ getAllLiquidityPoolAddressesSettled(BodyOutcomes(PoolPairs, MaxPairs))

(***************************************************************************)
(* getTokensByAddresses(addresses, chainFilter?)                           *)
(***************************************************************************)
\* the top of the loop body for batch k (the fetch of line 310), or the
\* return of line 352 when the batches are exhausted
nextBatch(k, lg, res) ==
  IF k <= NumBatches(Len(args.addresses))
    THEN /\ idx' = k
         /\ log' = Append(lg, Req("tokens", Batches(args.addresses)[k]))
         /\ pc' = "fetch"
         /\ result' = result
    ELSE /\ idx' = idx
         /\ log' = lg
         /\ pc' = "done"
         /\ result' = MapVal(res)

getTokensByAddresses ==
  /\ pc = "idle"
  /\ \E n \in AddressCounts, chainFilter \in ChainFilters :
       /\ op' = "getTokensByAddresses"
       /\ args' = [addresses |-> AddressList(n), chainFilter |-> chainFilter]
       /\ IF n = 0
            THEN /\ result' = MapVal(EmptyMap) /\ pc' = "done" /\ log' = <<>> /\ idx' = 0
            ELSE /\ result' = result /\ pc' = "fetch" /\ idx' = 1
                 /\ log' = <<Req("tokens", Batches(AddressList(n))[1])>>
  /\ results' = EmptyMap
  /\ hist' = <<>>
  /\ UNCHANGED <<resp, pair>>

\* resumed with the response of batch idx: lines 314-349
\* the code that runs once an await of this HTTP call has delivered one of rs
getTokensByAddressesSettled(rs) ==
  /\ op = "getTokensByAddresses"
  /\ \E r \in rs :
       /\ results' = resultsAfterChunk(results, args.chainFilter, r)
       /\ hist' = Append(hist,
            [outcome |-> chunkOutcome(args.chainFilter, r),
             best |-> IF chunkOutcome(args.chainFilter, r) = "ok"
                        THEN chunkBest(args.chainFilter, r) ELSE EmptyMap])
       /\ IF pauseAfterChunk(NumBatches(Len(args.addresses)), chunkOutcome(args.chainFilter, r))
            THEN /\ log' = Append(log, Sleep(BATCH_DELAY_MS))
                 /\ pc' = "sleep"
                 /\ UNCHANGED <<idx, result>>
            ELSE nextBatch(idx + 1, log, resultsAfterChunk(results, args.chainFilter, r))
  /\ UNCHANGED <<op, args, resp, pair>>

\* the await of fetch settles: a rejection or a non-ok status is handled at
\* once, an ok response suspends again at await response.json()
getTokensByAddressesFetched ==
  /\ pc = "fetch"
  /\ \/ getTokensByAddressesSettled(HeadFailures)
     \/ /\ op = "getTokensByAddresses"
        /\ pc' = "json"
        /\ UNCHANGED <<op, args, log, resp, result, pair, batchVars>>

\* the await of response.json() settles
getTokensByAddressesParsed ==
  /\ pc = "json"
  /\ getTokensByAddressesSettled(BodyOutcomes(ChunkPairs, MaxChunkPairs))

\* the timer of line 344 has fired
getTokensByAddressesSlept ==
  /\ op = "getTokensByAddresses" /\ pc = "sleep"
  /\ nextBatch(idx + 1, log, results)
  /\ UNCHANGED <<op, args, resp, pair, results, hist>>

(***************************************************************************)
(* batchGetMetrics(tokens)                                                 *)
(***************************************************************************)
byAddress(token) == Truthy(token.contract) /\ Truthy(token.chain)

\* the top of the loop body for token k (the fetch made by getTokenByAddress
\* or by getTokenMetrics), or the return of line 388
nextToken(tokens, k, lg, res) ==
  IF k <= Len(tokens)
    THEN /\ idx' = k
         /\ result' = result
         /\ IF byAddress(tokens[k])
              THEN /\ log' = Append(lg, Req("tokens", <<tokens[k].contract>>))
                   /\ pc' = "fetchAddress"
              ELSE /\ log' = Append(lg, Req("search", metricsQuery(tokens[k].ticker, tokens[k].chain)))
                   /\ pc' = "fetchSearch"
    ELSE /\ idx' = idx
         /\ log' = lg
         /\ pc' = "done"
         /\ result' = MapVal(res)

\* lines 374-385 / 379-385 once the token's lookup has produced v: an
\* exception leaves the function, otherwise the pause of line 385 starts
afterLookup(v) ==
  IF v = Threw
    THEN /\ result' = Threw /\ pc' = "done" /\ log' = log /\ results' = results
    ELSE /\ results' = IF v = Null THEN results
                       ELSE MapSetAll(results, [t \in {args.tokens[idx].ticker} |-> v.metrics])
         /\ log' = Append(log, Sleep(METRICS_DELAY_MS))
         /\ pc' = "sleep"
         /\ result' = result

batchGetMetrics ==
  /\ pc = "idle"
  /\ \E tokens \in SeqsUpTo(TokenRequests, MaxTokens) :
       /\ op' = "batchGetMetrics"
       /\ args' = [tokens |-> tokens]
       /\ nextToken(tokens, 1, <<>>, EmptyMap)
  /\ results' = EmptyMap
  /\ UNCHANGED <<resp, pair, hist>>

\* getTokenByAddress has its response: lines 373-376
\* the code that runs once an await of this HTTP call has delivered one of rs
batchGetMetricsAddressSettled(rs) ==
  /\ op = "batchGetMetrics"
  /\ \E r \in rs :
       afterLookup(IF getTokenByAddressValue(args.tokens[idx].chain, r) = Null THEN Null
                   ELSE metricsValue(getTokenByAddressValue(args.tokens[idx].chain, r).pair))
  /\ UNCHANGED <<op, args, resp, pair, idx, hist>>

\* the await of fetch settles: a rejection or a non-ok status is handled at
\* once, an ok response suspends again at await response.json()
batchGetMetricsAddressFetched ==
  /\ pc = "fetchAddress"
  /\ \/ batchGetMetricsAddressSettled(HeadFailures)
     \/ /\ op = "batchGetMetrics"
        /\ pc' = "jsonAddress"
        /\ UNCHANGED <<op, args, log, resp, result, pair, batchVars>>

\* the await of response.json() settles
batchGetMetricsAddressParsed ==
  /\ pc = "jsonAddress"
  /\ batchGetMetricsAddressSettled(BodyOutcomes(BatchMetricsPairs, MaxMetricsPairs))

\* the first search of getTokenMetrics has its response: lines 378-381
\* the code that runs once an await of this HTTP call has delivered one of rs
batchGetMetricsSearchSettled(rs) ==
  /\ op = "batchGetMetrics"
  /\ \E r \in rs :
       IF metricsAfterSearch(args.tokens[idx].ticker, r) = Retry
         THEN /\ log' = Append(log, Req("search", <<args.tokens[idx].ticker>>))
              /\ pc' = "fetchRetry"
              /\ UNCHANGED <<result, results>>
         ELSE afterLookup(metricsAfterSearch(args.tokens[idx].ticker, r))
  /\ UNCHANGED <<op, args, resp, pair, idx, hist>>

\* the await of fetch settles: a rejection or a non-ok status is handled at
\* once, an ok response suspends again at await response.json()
batchGetMetricsSearchFetched ==
  /\ pc = "fetchSearch"
  /\ \/ batchGetMetricsSearchSettled(HeadFailures)
     \/ /\ op = "batchGetMetrics"
        /\ pc' = "jsonSearch"
        /\ UNCHANGED <<op, args, log, resp, result, pair, batchVars>>

\* the await of response.json() settles
batchGetMetricsSearchParsed ==
  /\ pc = "jsonSearch"
  /\ batchGetMetricsSearchSettled(BodyOutcomes(BatchMetricsPairs, MaxMetricsPairs))

\* the retry search of getTokenMetrics has its response
\* the code that runs once an await of this HTTP call has delivered one of rs
batchGetMetricsRetrySettled(rs) ==
  /\ op = "batchGetMetrics"
  /\ \E r \in rs :
       afterLookup(metricsAfterRetry(args.tokens[idx].ticker, r))
  /\ UNCHANGED <<op, args, resp, pair, idx, hist>>

\* the await of fetch settles: a rejection or a non-ok status is handled at
\* once, an ok response suspends again at await response.json()
batchGetMetricsRetryFetched ==
  /\ pc = "fetchRetry"
  /\ \/ batchGetMetricsRetrySettled(HeadFailures)
     \/ /\ op = "batchGetMetrics"
        /\ pc' = "jsonRetry"
        /\ UNCHANGED <<op, args, log, resp, result, pair, batchVars>>

\* the await of response.json() settles
batchGetMetricsRetryParsed ==
  /\ pc = "jsonRetry"
  /\ batchGetMetricsRetrySettled(BodyOutcomes(BatchMetricsPairs, MaxMetricsPairs))

\* the timer of line 385 has fired
batchGetMetricsSlept ==
  /\ op = "batchGetMetrics" /\ pc = "sleep"
  /\ nextToken(args.tokens, idx + 1, log, results)
  /\ UNCHANGED <<op, args, resp, pair, results, hist>>

Next ==
  \/ searchToken
  \/ searchTokenFetched
  \/ searchTokenParsed
  \/ getTokenByAddress
  \/ getTokenByAddressFetched
  \/ getTokenByAddressParsed
  \/ getTokenMetrics
  \/ getTokenMetricsFetched
  \/ getTokenMetricsParsed
  \/ getTokenMetricsRetried
  \/ getTokenMetricsRetryParsed
  \/ getBoostedTokens
  \/ getBoostedTokensFetched
  \/ getBoostedTokensParsed
  \/ getNewPairs
  \/ getNewPairsFetched
  \/ getNewPairsParsed
  \/ searchByVolume
  \/ searchByVolumeFetched
  \/ searchByVolumeParsed
  \/ getLiquidityPoolAddress
  \/ getLiquidityPoolAddressFetched
  \/ getLiquidityPoolAddressParsed
  \/ getAllLiquidityPoolAddresses
  \/ getAllLiquidityPoolAddressesFetched
  \/ getAllLiquidityPoolAddressesParsed
  \/ getTokensByAddresses
  \/ getTokensByAddressesFetched
  \/ getTokensByAddressesParsed
  \/ getTokensByAddressesSlept
  \/ batchGetMetrics
  \/ batchGetMetricsAddressFetched
  \/ batchGetMetricsAddressParsed
  \/ batchGetMetricsSearchFetched
  \/ batchGetMetricsSearchParsed
  \/ batchGetMetricsRetryFetched
  \/ batchGetMetricsRetryParsed
  \/ batchGetMetricsSlept

Spec == Init /\ [][Next]_vars

(***************************************************************************)
(* Properties.                                                             *)
(***************************************************************************)
\* the HTTP requests of the log, in order
Requests == SelectSeq(log, LAMBDA e : e.kind = "req")

\* liquidity.usd with a missing value counted as 0
LiqOf(p) == IF p.liq = Missing THEN 0 ELSE p.liq

\* 24h volume with a missing value counted as 0
VolOf(p) == IF p.vol = Missing THEN 0 ELSE p.vol

\* the positions of ps that hold a pair of the largest liquidity of ps
MaxLiqPositions(ps) == {i \in 1..Len(ps) : \A j \in 1..Len(ps) : LiqOf(ps[j]) <= LiqOf(ps[i])}

\* the permutations of the sequence ps
Reorderings(ps) ==
  {[i \in 1..Len(ps) |-> ps[f[i]]] :
     f \in {g \in [1..Len(ps) -> 1..Len(ps)] : \A a, b \in 1..Len(ps) : g[a] = g[b] => a = b}}

\* C1: no public operation ever raises an error to its caller, whatever the
\* outcome of its HTTP calls and whatever fields the pair records lack.
C1_NeverThrows == result # Threw

\* C2 as stated: on a successful, non-empty response getTokenByAddress
\* returns the best-liquidity pair among the chain-matching pairs when there
\* are any, and otherwise the best-liquidity pair of all returned pairs.
C2_FallbackIsGlobalBest ==
  (op = "getTokenByAddress" /\ pc = "done" /\ resp.kind = "ok" /\ Len(PairsOf(resp)) > 0) =>
    LET ps == PairsOf(resp)
        matching == SelectSeq(ps, LAMBDA p : p.chainId = normalizeChain(args.chain))
    IN /\ result.kind = "pair"
       /\ IF Len(matching) > 0
            THEN \E i \in MaxLiqPositions(matching) : result.pair = matching[i]
            ELSE \E i \in MaxLiqPositions(ps) : result.pair = ps[i]

\* C2 amended: for a non-empty normalized chain the result is the
\* best-liquidity pair among the chain-matching pairs when there are any,
\* and otherwise the first pair of the response whatever its liquidity; for
\* an empty chain no filter applies and the result is the best-liquidity
\* pair of all returned pairs.
C2_FallbackIsFirstPair ==
  (op = "getTokenByAddress" /\ pc = "done" /\ resp.kind = "ok" /\ Len(PairsOf(resp)) > 0) =>
    LET ps == PairsOf(resp)
        matching == SelectSeq(ps, LAMBDA p : p.chainId = normalizeChain(args.chain))
    IN /\ result.kind = "pair"
       /\ IF normalizeChain(args.chain) = ""
            THEN \E i \in MaxLiqPositions(ps) : result.pair = ps[i]
          ELSE IF Len(matching) > 0
            THEN \E i \in MaxLiqPositions(matching) : result.pair = matching[i]
          ELSE result.pair = ps[1]

\* a lookup whose response has no pair of the requested chain, whose first
\* pair is not the most liquid one, and which returned that first pair
C2_Witness ==
  /\ op = "getTokenByAddress" /\ pc = "done" /\ resp.kind = "ok"
  /\ args.chain = "SOL"
  /\ Len(PairsOf(resp)) = 3
  /\ \A i \in 1..3 : PairsOf(resp)[i].chainId # "solana"
  /\ 1 \notin MaxLiqPositions(PairsOf(resp))
  /\ result = PairVal(PairsOf(resp)[1])

\* C3: searchToken returns absent for a response without pairs; otherwise
\* it returns the earliest pair of the response whose liquidity (missing
\* counted as 0) is the largest of the response, and no reordering of the
\* response changes the liquidity of the selected pair.
C3_SearchSelectsFirstMax ==
  (op = "searchToken" /\ pc = "done" /\ resp.kind = "ok") =>
    LET ps == PairsOf(resp)
    IN IF Len(ps) = 0 THEN result = Null
       ELSE /\ result.kind = "pair"
            /\ \E i \in MaxLiqPositions(ps) :
                 /\ result.pair = ps[i]
                 /\ \A j \in MaxLiqPositions(ps) : i <= j
            /\ \A qs \in Reorderings(ps) :
                 /\ searchTokenValue(Body(qs)).kind = "pair"
                 /\ LiqOf(searchTokenValue(Body(qs)).pair) = LiqOf(result.pair)

\* a search whose second and third pairs tie for the largest liquidity and
\* differ, and which returned the second
C3_Witness ==
  /\ op = "searchToken" /\ pc = "done" /\ resp.kind = "ok"
  /\ Len(PairsOf(resp)) = 3
  /\ MaxLiqPositions(PairsOf(resp)) = {2, 3}
  /\ PairsOf(resp)[2] # PairsOf(resp)[3]
  /\ result = PairVal(PairsOf(resp)[2])

\* C4: getTokenMetrics returns metrics only of a pair whose symbol equals the
\* ticker case-insensitively: a first search without result gives absent; a
\* first pair with the ticker's symbol gives that pair's projection; a first
\* pair with another symbol gives exactly one retry search with the ticker
\* alone, whose pair's projection is returned when its symbol matches and
\* absent when it is absent or mismatches again.  The cases are those of
\* pairs that carry a symbol.
C4_MetricsOfMatchingPairOnly ==
  (op = "getTokenMetrics" /\ pc = "done") =>
    LET Matches(p) == ToUpperCase(p.symbol) = ToUpperCase(args.ticker)
        retried == searchTokenValue(resp)
    IN /\ result.kind = "metrics" =>
            ToUpperCase(result.metrics.ticker) = ToUpperCase(args.ticker)
       /\ pair = Null => (result = Null /\ Len(Requests) = 1)
       /\ (pair # Null /\ pair.pair.hasBase /\ Matches(pair.pair)) =>
            (result = MetricsVal(pairToMetrics(pair.pair)) /\ Len(Requests) = 1)
       /\ (pair # Null /\ pair.pair.hasBase /\ ~Matches(pair.pair)) =>
            /\ Len(Requests) = 2
            /\ Requests[2] = Req("search", <<args.ticker>>)
            /\ retried = Null => result = Null
            /\ (retried # Null /\ retried.pair.hasBase) =>
                 IF Matches(retried.pair)
                   THEN result = MetricsVal(pairToMetrics(retried.pair))
                   ELSE result = Null

\* C5: getTokensByAddresses with n addresses issues exactly ceil(n/30)
\* requests, one at a time in input order; request k carries the addresses
\* 30(k-1)+1 .. min(30k, n) in input order, so that every address is in
\* exactly one request and no request carries more than 30; with n = 0 it
\* returns the empty map without any request.
C5_ChunksOfThirty ==
  (op = "getTokensByAddresses") =>
    LET n == Len(args.addresses)
        chunks == CHOOSE c \in 0..n : 30 * (c - 1) < n /\ n <= 30 * c
        reqs == Requests
    IN /\ Len(reqs) = idx
       /\ Len(reqs) <= chunks
       /\ pc = "done" => Len(reqs) = chunks
       /\ (pc = "done" /\ n = 0) => (result = MapVal(EmptyMap) /\ log = <<>>)
       /\ \A k \in 1..Len(reqs) :
            /\ reqs[k].endpoint = "tokens"
            /\ Len(reqs[k].q) = (IF 30 * k <= n THEN 30 ELSE n - 30 * (k - 1))
            /\ \A j \in 1..Len(reqs[k].q) : reqs[k].q[j] = args.addresses[30 * (k - 1) + j]
       /\ pc = "done" =>
            \A a \in 1..n :
              Cardinality({kj \in (1..Len(reqs)) \X (1..30) :
                             /\ kj[2] <= Len(reqs[kj[1]].q)
                             /\ reqs[kj[1]].q[kj[2]] = args.addresses[a]}) = 1

\* a call with 65 addresses that has returned after requests of 30, 30 and 5
C5_Witness ==
  /\ op = "getTokensByAddresses" /\ pc = "done"
  /\ Len(args.addresses) = 65
  /\ Len(Requests) = 3
  /\ Len(Requests[1].q) = 30 /\ Len(Requests[2].q) = 30 /\ Len(Requests[3].q) = 5

\* C6: in getTokensByAddresses a failed chunk is skipped and not retried,
\* every later chunk is still requested, and the map holds, at every moment
\* and on return, the entries of every chunk that succeeded so far, before
\* and after a failed one; a failure removes nothing.
C6_FailedChunkSkipped ==
  (op = "getTokensByAddresses") =>
    LET okAt(a) == {k \in 1..Len(hist) : hist[k].outcome = "ok" /\ a \in DOMAIN hist[k].best}
        last(a) == CHOOSE k \in okAt(a) : \A m \in okAt(a) : m <= k
    IN /\ Len(hist) \in {Len(Requests), Len(Requests) - 1}
       /\ pc \in {"fetch", "json"} <=> Len(hist) = Len(Requests) - 1
       /\ \A k \in 1..Len(Requests) : Requests[k].q[1] = 30 * (k - 1) + 1
       /\ pc = "done" => Len(hist) = (Len(args.addresses) + 29) \div 30
       /\ DOMAIN results = {a \in {"A1", "A2"} : okAt(a) # {}}
       /\ \A a \in DOMAIN results : results[a] = hist[last(a)].best[a]
       /\ pc = "done" => result = MapVal(results)

\* a call of three chunks whose second chunk failed and whose map holds an
\* entry of the first chunk and one of the third
C6_Witness ==
  /\ op = "getTokensByAddresses" /\ pc = "done"
  /\ Len(hist) = 3
  /\ hist[1].outcome = "ok" /\ DOMAIN hist[1].best = {"A1"}
  /\ hist[2].outcome \in {"status", "neterr", "badjson"}
  /\ hist[3].outcome = "ok" /\ DOMAIN hist[3].best = {"A2"}
  /\ result.kind = "map"
  /\ DOMAIN result.map = {"A1", "A2"}
  /\ result.map["A1"] = hist[1].best["A1"]

\* C7: in getTokensByAddresses a 100ms pause separates every two consecutive
\* chunk requests whatever the outcome of the earlier one, and pauses occur
\* only between chunks: none with a single chunk, none after the last chunk.
C7_PauseBetweenChunks ==
  (op = "getTokensByAddresses") =>
    /\ \A i \in 1..(Len(log) - 1) :
         /\ log[i].kind = "req" => log[i + 1] = Sleep(100)
         /\ log[i].kind = "sleep" => log[i + 1].kind = "req"
    /\ pc = "done" => (log = <<>> \/ log[Len(log)].kind = "req")

\* C8: batchGetMetrics handles its requests one at a time in input order
\* with a 250ms pause after each, so that no two HTTP calls of a batch are
\* issued without a 250ms pause between them.
C8_PauseBetweenCalls ==
  (op = "batchGetMetrics") =>
    \A i \in 1..(Len(log) - 1) : log[i].kind = "req" => log[i + 1] = Sleep(250)

\* C9: on a successful response searchByVolume returns exactly the pairs
\* whose 24h volume (missing counted as 0) reaches minVolume24h, each as
\* often as the response holds it, in non-increasing order of volume; on a
\* failure it returns the empty list.
C9_VolumeFilterSorted ==
  (op = "searchByVolume" /\ pc = "done") =>
    LET ps == PairsOf(resp)
        threshold == IF args.minVolume24h = Missing THEN 30000 ELSE args.minVolume24h
        out == result.list
        Count(s, p) == Cardinality({i \in 1..Len(s) : s[i] = p})
    IN /\ result.kind = "list"
       /\ resp.kind # "ok" => out = <<>>
       /\ resp.kind = "ok" =>
            /\ \A p \in VolumePairs :
                 Count(out, p) = (IF VolOf(p) >= threshold THEN Count(ps, p) ELSE 0)
            /\ \A i \in 1..(Len(out) - 1) : VolOf(out[i]) >= VolOf(out[i + 1])

\* the search with threshold 50000 over volumes 10000, 60000, 90000 that
\* returned the pairs of volume 90000 and 60000 in that order
C9_Witness ==
  /\ op = "searchByVolume" /\ pc = "done" /\ resp.kind = "ok"
  /\ args.minVolume24h = 50000
  /\ Len(PairsOf(resp)) = 3
  /\ PairsOf(resp)[1].vol = 10000 /\ PairsOf(resp)[2].vol = 60000
  /\ PairsOf(resp)[3].vol = 90000
  /\ result = ListVal(<<PairsOf(resp)[3], PairsOf(resp)[2]>>)

\* C10: on a successful response getAllLiquidityPoolAddresses returns the
\* pair addresses of exactly the pairs of the normalized chain, none twice,
\* in the order of their first occurrence in the response; on a failure it
\* returns the empty list.
C10_PoolAddressesDeduped ==
  (op = "getAllLiquidityPoolAddresses" /\ pc = "done") =>
    LET ps == PairsOf(resp)
        onChain == {i \in 1..Len(ps) : ps[i].chainId = normalizeChain(args.chain)}
        first(a) == CHOOSE i \in onChain :
                      ps[i].pairAddress = a /\ \A j \in onChain : ps[j].pairAddress = a => i <= j
        out == result.list
    IN /\ result.kind = "list"
       /\ resp.kind # "ok" => out = <<>>
       /\ resp.kind = "ok" =>
            /\ {out[i] : i \in 1..Len(out)} = {ps[i].pairAddress : i \in onChain}
            /\ \A i, j \in 1..Len(out) : i < j => out[i] # out[j] /\ first(out[i]) < first(out[j])

\* a response that holds the same pair address first and third, another one
\* between them, all on the requested chain, answered by the two addresses
\* in the order of their first occurrence
C10_Witness ==
  /\ op = "getAllLiquidityPoolAddresses" /\ pc = "done" /\ resp.kind = "ok"
  /\ args.chain = "SOL"
  /\ Len(PairsOf(resp)) = 3
  /\ \A i \in 1..3 : PairsOf(resp)[i].chainId = "solana"
  /\ PairsOf(resp)[1].pairAddress = "P1" /\ PairsOf(resp)[2].pairAddress = "P2"
  /\ PairsOf(resp)[3].pairAddress = "P1"
  /\ result = ListVal(<<"P1", "P2">>)

\* C11: every entry of the map built by batchGetMetrics is stored under the
\* ticker of a request and holds metrics of that token: the ticker of the
\* stored metrics equals its key case-insensitively, for requests resolved
\* by search and for requests resolved by contract address alike.
C11_EntryTickerEqualsKey ==
  (op = "batchGetMetrics") =>
    /\ \A t \in DOMAIN results :
         /\ \E k \in 1..Len(args.tokens) : args.tokens[k].ticker = t
         /\ ToUpperCase(results[t].ticker) = ToUpperCase(t)
    /\ pc = "done" /\ result # Threw => result = MapVal(results)

\* C12: in the map of getTokensByAddresses every key is the base-token
\* address of its pair, the pair passes the chain filter when one is given,
\* and its liquidity is the largest among the pairs of that address that
\* the successful chunks of the call delivered, not only the last of them.
C12_BestAcrossChunks ==
  (op = "getTokensByAddresses") =>
    \A a \in DOMAIN results :
      /\ results[a].hasBase /\ results[a].address = a
      /\ args.chainFilter = "SOL" => results[a].chainId = "solana"
      /\ \A k \in 1..Len(hist) :
           (hist[k].outcome = "ok" /\ a \in DOMAIN hist[k].best) =>
             LiqOf(hist[k].best[a]) <= LiqOf(results[a])

====
